---- MODULE Spec2Model ----
(***************************************************************************)
(* Model of the tarot deck generator: the section run of DeckGenerator     *)
(* (handleGenerateSection), the single card regeneration (regenerateImage) *)
(* and the two service functions they call (generateDeckSectionMetadata,   *)
(* generateCardImage).                                                     *)
(*                                                                         *)
(* One action is one browser task: the code that runs from an event (a     *)
(* click, a network response, a timer) up to the next await.  Promise      *)
(* continuations run as microtasks of the task that settled the promise,   *)
(* so a response and everything the handler does with it up to its next    *)
(* await form one step.  React state setters are applied in call order.    *)
(***************************************************************************)
EXTENDS Integers, Sequences, FiniteSets

\* ---------------------------------------------------------------- bounds
\* Longest item list the service returns for one section (both Major Arcana
\* replies together).
MaxItems == 2
\* Section runs started in one behaviour.
MaxRuns == 2
\* Section runs started in one behaviour in which cards are regenerated.
MaxRegenRuns == 1
\* regenerateImage invocations in flight at the same time.
MaxRegens == 1
\* Section runs started in the specification with fairness.
MaxLiveRuns == 1
\* Regenerations in flight at once, and the section runs before them, in the
\* specification of overlapping regenerations.
MaxPairRegens == 2
MaxPairRuns == 1

\* ------------------------------------------------------ program constants
TotalMajor == 22
TotalSuit == 14
InitialRetries == 3
InitialDelay == 10000
GrowthNum == 3
GrowthDen == 2
BatchPause == 1000
PaceDelay == 4000

NULL == "null"

SECTIONS == <<"Major Arcana", "Wands", "Cups", "Swords", "Pentacles">>

Sections == {SECTIONS[k] : k \in 1..Len(SECTIONS)}

\* The sections whose "Generate" button the modelled user presses.
Tabs == {"Major Arcana", "Wands"}

\* The two card-name lists of the Major Arcana, and the list of a suit.
part1 == "0 The Fool .. X Wheel of Fortune"
part2 == "XI Justice .. XXI The World"

suitList(section) == section

\* section.toLowerCase().replace(/\s+/g, '-')
Slug(section) ==
    CASE section = "Major Arcana" -> "major-arcana"
      [] section = "Wands" -> "wands"
      [] section = "Cups" -> "cups"
      [] section = "Swords" -> "swords"
      [] section = "Pentacles" -> "pentacles"

\* ------------------------------------------------------------ image urls
\* An image reference is a sequence of strings: empty when the field is
\* undefined, else a prefix and a payload.
NoUrl == <<>>

DataUrl(data) == <<"data:image/png;base64,", data>>

QuotaExceeded == <<"https://placehold.co/300x400/1e1e2e/FFF?text=", "Quota+Exceeded">>

GenerationFailed == <<"https://placehold.co/300x400/1e1e2e/FFF?text=", "Generation+Failed">>

\* Image payloads the service can return.
Payloads == {"imgA"}

\* Values Math.random() can return.
Randoms == {"0.25", "0.75"}

\* --------------------------------------------------- service error texts
\* error.toString() of a rejected request, as its pieces; a piece is a
\* maximal run of text the classifier's substrings either equal or miss.
ErrorTexts ==
    { <<"Error: ", "429", " Too Many Requests">>,
      <<"Error: ", "RESOURCE_", "EXHAUSTED">>,
      <<"Error: ", "400", " INVALID_ARGUMENT">>,
      <<"Error: ", "SAFETY">> }

NoImageText == <<"Error: ", "No image data found in response">>

\* String.prototype.toLowerCase on one piece.
ToLower(piece) ==
    CASE piece = "EXHAUSTED" -> "exhausted"
      [] piece = "RESOURCE_" -> "resource_"
      [] piece = "Error: " -> "error: "
      [] piece = " Too Many Requests" -> " too many requests"
      [] piece = " INVALID_ARGUMENT" -> " invalid_argument"
      [] piece = "SAFETY" -> "safety"
      [] piece = "No image data found in response" -> "no image data found in response"
      [] OTHER -> piece

Includes(text, sub) == \E k \in 1..Len(text) : ToLower(text[k]) = sub

\* The classifier of generateCardImage's catch block.
IsQuotaError(text) ==
    Includes(text, "429") \/ Includes(text, "exhausted") \/ Includes(text, "quota")

VARIABLES
    hasApiKey,         \* hasApiKey(): fixed when the module is loaded
    connectionStatus,  \* 'checking' | 'connected' | 'invalid' | 'missing'
    deck,              \* section name -> list of cards
    loadingSection,    \* section of the active run, or NULL
    progress,          \* <<>> (null) or <<[current, total]>>
    error,             \* NULL or the message shown
    run,               \* the frame of handleGenerateSection
    regens,            \* the frames of regenerateImage, by slot
    now,               \* the last value Date.now() returned to a run
    runs,              \* section runs started so far
    probe,             \* one generateCardImage call observed on its own
    seeded,            \* the card and request parts of the last regeneration
    rejected           \* the last click on Generate was turned down for its theme

vars == <<hasApiKey, connectionStatus, deck, loadingSection, progress, error,
          run, regens, now, runs, probe, seeded, rejected>>

\* ------------------------------------------------------ generateCardImage
\* A style reference as the caller passes it: none, a data URL the regular
\* expression matches, a data URL it does not match.
NoRef == <<>>

GoodRef == <<"data:", "image/png", ";base64,", "refdata">>

BadRef == <<"data:", "image/x-icon", ";base64,", "refdata">>

\* Mime types /^data:(image\/[a-zA-Z+]+);base64,(.+)$/ accepts.
MatchesImageMime(mime) == mime \in {"image/png", "image/jpeg", "image/svg+xml"}

\* The request parts built from the prompt and the reference.
Parts(visualPrompt, ref) ==
    IF ref # NoRef /\ MatchesImageMime(ref[2])
    THEN << <<"inlineData", ref[2], ref[4]>>,
            <<"text", "Create a tarot card image matching the artistic style of the provided reference image. Content: ", visualPrompt>> >>
    ELSE << <<"text", "", visualPrompt>> >>

\* The frame of one generateCardImage call.  pc: "none" (no call), "request"
\* (a request is with the service), "backoff" (inside await wait(delay)),
\* "returned", "thrown".  requests, waited, answers and log record what the
\* call did: the requests sent, the delays waited, how each response was
\* classified, the console events.
NoCall ==
    [pc |-> "none", parts |-> <<>>, retries |-> 0, delay |-> 0, requests |-> 0,
     waited |-> <<>>, answers |-> <<>>, log |-> <<>>, result |-> NoUrl]

\* What the service can answer to an image request.
ImageResponses ==
    [kind : {"image"}, data : Payloads, text : {<<>>}]
      \cup [kind : {"noimage"}, data : {""}, text : {<<>>}]
      \cup [kind : {"error"}, data : {""}, text : ErrorTexts]

\* generateCardImage up to its first await.
CallImage(visualPrompt, ref) ==
    IF ~hasApiKey
    THEN [NoCall EXCEPT !.pc = "thrown"]
    ELSE [NoCall EXCEPT !.pc = "request", !.parts = Parts(visualPrompt, ref),
                        !.retries = InitialRetries, !.delay = InitialDelay,
                        !.requests = 1]
\* Faulty variant of the catch block: a non-quota failure is thrown on to
\* the caller.
CatchImageRethrows(call, text) ==
    IF IsQuotaError(text)
    THEN LET warned == [call EXCEPT !.log = Append(@, <<"warn", call.delay, call.retries>>),
                                    !.answers = Append(@, "RateLimited")]
         IN  IF call.retries = 0
             THEN [warned EXCEPT !.pc = "returned", !.result = QuotaExceeded,
                                 !.log = Append(@, <<"error", 0, 0>>)]
             ELSE [warned EXCEPT !.pc = "backoff"]
    ELSE [call EXCEPT !.pc = "thrown",
                      !.answers = Append(@, "Fatal"),
                      !.log = Append(@, <<"error", 0, 0>>)]

\* Faulty variant of the catch block: a non-quota failure is retried like a
\* quota failure instead of failing fast.
CatchImageRetriesFatal(call, text) ==
    LET kind == IF IsQuotaError(text) THEN "RateLimited" ELSE "Fatal"
        warned == [call EXCEPT !.log = Append(@, <<"warn", call.delay, call.retries>>),
                               !.answers = Append(@, kind)]
    IN  IF call.retries = 0
        THEN [warned EXCEPT !.pc = "returned", !.result = QuotaExceeded,
                            !.log = Append(@, <<"error", 0, 0>>)]
        ELSE [warned EXCEPT !.pc = "backoff"]

\* The catch block of the retry loop, for an error with the given text.
CatchImage(call, text) ==
    IF IsQuotaError(text)
    THEN LET warned == [call EXCEPT !.log = Append(@, <<"warn", call.delay, call.retries>>),
                                    !.answers = Append(@, "RateLimited")]
         IN  IF call.retries = 0
             THEN [warned EXCEPT !.pc = "returned", !.result = QuotaExceeded,
                                 !.log = Append(@, <<"error", 0, 0>>)]
             ELSE [warned EXCEPT !.pc = "backoff"]
    ELSE [call EXCEPT !.pc = "returned", !.result = GenerationFailed,
                      !.answers = Append(@, "Fatal"),
                      !.log = Append(@, <<"error", 0, 0>>)]

\* The continuation of the awaited request.
ImageResponse(call, resp) ==
    CASE resp.kind = "image" ->
           [call EXCEPT !.pc = "returned", !.result = DataUrl(resp.data),
                        !.answers = Append(@, "Image")]
      [] resp.kind = "noimage" -> CatchImage(call, NoImageText)
      [] OTHER -> CatchImage(call, resp.text)
\* Faulty variant of the backoff: the delay is doubled.
ImageBackoffOverDoubles(call) ==
    [call EXCEPT !.pc = "request",
                 !.waited = Append(@, call.delay),
                 !.retries = @ - 1,
                 !.delay = @ * 2,
                 !.requests = @ + 1]

\* Faulty variant of the backoff: the delay is not grown after the wait.
ImageBackoffOverFlat(call) ==
    [call EXCEPT !.pc = "request",
                 !.waited = Append(@, call.delay),
                 !.retries = @ - 1,
                 !.requests = @ + 1]

\* The continuation of await wait(delay): retries--, delay *= 1.5, and the
\* next round of the loop sends the request again.
ImageBackoffOver(call) ==
    [call EXCEPT !.pc = "request",
                 !.waited = Append(@, call.delay),
                 !.retries = @ - 1,
                 !.delay = (@ * GrowthNum) \div GrowthDen,
                 !.requests = @ + 1]

\* -------------------------------------------- generateDeckSectionMetadata
\* The k-th entry of a reply to the request for the names in cardNames: its
\* name is one of the names asked for, visualPrompt stands for the text the
\* service wrote for that entry.
RawCard(cardNames, k) == [name |-> cardNames, visualPrompt |-> <<cardNames, k>>]

\* JSON.parse of a reply of n entries.
RawCards(cardNames, n) == [k \in 1..n |-> RawCard(cardNames, k)]

\* What the service can answer to a metadata request: a JSON list of n
\* entries, a response without text, text that is no JSON, a rejection with
\* a message or without one.
BatchResponses ==
    [kind : {"cards"}, n : 0..MaxItems, message : {""}]
      \cup [kind : {"notext", "badjson"}, n : {0}, message : {""}]
      \cup [kind : {"error"}, n : {0}, message : {"503 Service Unavailable", ""}]

\* The message of the Error generateBatch throws, or rejects with.
BatchErrorMessage(resp) ==
    CASE resp.kind = "notext" -> "No text returned from Gemini API."
      [] resp.kind = "badjson" -> "Failed to parse API response."
      [] OTHER -> resp.message

\* The Error the catch block of generateDeckSectionMetadata rethrows.
MetadataErrorMessage(message) == IF message # "" THEN message ELSE "Unknown API Error"
\* Faulty variant: the cards are created with isLoadingImage false.
AddIdsNotLoading(rawCards, section, stamp) ==
    [k \in 1..Len(rawCards) |->
        [id |-> <<Slug(section), k - 1, stamp>>,
         name |-> rawCards[k].name,
         visualPrompt |-> rawCards[k].visualPrompt,
         section |-> section,
         imageUrl |-> NoUrl,
         isLoadingImage |-> FALSE]]

\* Faulty variant: the index is left out of the id.
AddIdsNoIndex(rawCards, section, stamp) ==
    [k \in 1..Len(rawCards) |->
        [id |-> <<Slug(section), 0, stamp>>,
         name |-> rawCards[k].name,
         visualPrompt |-> rawCards[k].visualPrompt,
         section |-> section,
         imageUrl |-> NoUrl,
         isLoadingImage |-> TRUE]]

\* rawCards.map(...): ids and initial state; stamp is what Date.now()
\* returns during the call.
AddIds(rawCards, section, stamp) ==
    [k \in 1..Len(rawCards) |->
        [id |-> <<Slug(section), k - 1, stamp>>,
         name |-> rawCards[k].name,
         visualPrompt |-> rawCards[k].visualPrompt,
         section |-> section,
         imageUrl |-> NoUrl,
         isLoadingImage |-> TRUE]]

\* ------------------------------------------------- handleGenerateSection
\* Faulty variant: the other keys are not carried over.
PutOnly(d, key, value) ==
    [k \in DOMAIN d \cup {key} |-> IF k = key THEN value ELSE <<>>]

\* Faulty variant: the section is stored under its slug.
PutSlug(d, key, value) ==
    [k \in DOMAIN d \cup {Slug(key)} |-> IF k = Slug(key) THEN value ELSE d[k]]

\* ({ ...prev, [key]: value }): the object with the key set, added when new.
Put(d, key, value) ==
    [k \in DOMAIN d \cup {key} |-> IF k = key THEN value ELSE d[k]]


NoProgress == <<>>

NoError == <<>>

totalCards(section) == IF section = "Major Arcana" THEN TotalMajor ELSE TotalSuit

Min(a, b) == IF a < b THEN a ELSE b

\* The frame of handleGenerateSection.  pc: "idle" (not running), "batch1",
\* "batch2", "batch" (a metadata request is with the service), "pause" (the
\* wait between the two Major Arcana requests), "image" (inside await
\* Promise.all of the loop), "pace" (the wait after an item), "finally" (the
\* try block is over, the finally block has not run).
\* theme is the themeInput the invocation closed over.
\* stage1, answered and imageCalls record what the run did: how the metadata
\* stage ended, how the image call of each processed item ended, how many
\* image calls the run made.
NoRun ==
    [pc |-> "idle", section |-> NULL, theme |-> <<>>,
     batch1 |-> <<>>, cardsToProcess |-> <<>>,
     results |-> <<>>, i |-> 0, call |-> NoCall,
     stage1 |-> "none", answered |-> <<>>, imageCalls |-> 0]

\* results.findIndex(c => c.id === id), counted from 1; 0 when absent.
FindIndex(results, id) ==
    IF \E k \in 1..Len(results) : results[k].id = id
    THEN CHOOSE k \in 1..Len(results) :
            /\ results[k].id = id
            /\ \A j \in 1..(k - 1) : results[j].id # id
    ELSE 0

\* How a finished image call ended, as the retry policy classified it.
Ended(call) ==
    IF call.pc = "thrown" THEN "Thrown" ELSE call.answers[Len(call.answers)]
\* Faulty variant of the loop body: a failed image call ends the loop.
FinishItemStopsOnFailure(st, call) ==
    LET r == st.run
        card == r.cardsToProcess[r.i + 1]
        index == FindIndex(r.results, card.id)
        failed == call.pc # "returned" \/ call.result \in {QuotaExceeded, GenerationFailed}
        results ==
            IF index = 0 THEN r.results
            ELSE IF call.pc = "returned"
                 THEN [r.results EXCEPT ![index].imageUrl = call.result,
                                        ![index].isLoadingImage = FALSE]
                 ELSE [r.results EXCEPT ![index].isLoadingImage = FALSE]
    IN  [deck |-> Put(st.deck, r.section, results),
         progress |->
            IF st.progress # NoProgress
            THEN <<[st.progress[1] EXCEPT !.current = Min(st.progress[1].total, r.i + 1)]>>
            ELSE NoProgress,
         run |-> [r EXCEPT !.results = results,
                           !.call = NoCall,
                           !.answered = Append(@, Ended(call)),
                           !.pc = IF r.i + 1 < Len(r.cardsToProcess) /\ ~failed
                                  THEN "pace" ELSE "finally"]]

\* Faulty variant of the loop body: the list published is the one from
\* before the item's update.
FinishItemStalePublish(st, call) ==
    LET r == st.run
        card == r.cardsToProcess[r.i + 1]
        index == FindIndex(r.results, card.id)
        results ==
            IF index = 0 THEN r.results
            ELSE IF call.pc = "returned"
                 THEN [r.results EXCEPT ![index].imageUrl = call.result,
                                        ![index].isLoadingImage = FALSE]
                 ELSE [r.results EXCEPT ![index].isLoadingImage = FALSE]
    IN  [deck |-> Put(st.deck, r.section, r.results),
         progress |->
            IF st.progress # NoProgress
            THEN <<[st.progress[1] EXCEPT !.current = Min(st.progress[1].total, r.i + 1)]>>
            ELSE NoProgress,
         run |-> [r EXCEPT !.results = results,
                           !.call = NoCall,
                           !.answered = Append(@, Ended(call)),
                           !.pc = IF r.i + 1 < Len(r.cardsToProcess)
                                  THEN "pace" ELSE "finally"]]

\* The rest of one round of the loop once generateCardImage has settled:
\* the item's update, the publish, the progress update, then the pacing
\* wait or the end of the try block.  st is [deck, progress, run].
FinishItem(st, call) ==
    LET r == st.run
        card == r.cardsToProcess[r.i + 1]
        index == FindIndex(r.results, card.id)
        results ==
            IF index = 0 THEN r.results
            ELSE IF call.pc = "returned"
                 THEN [r.results EXCEPT ![index].imageUrl = call.result,
                                        ![index].isLoadingImage = FALSE]
                 ELSE [r.results EXCEPT ![index].isLoadingImage = FALSE]
    IN  [deck |-> Put(st.deck, r.section, results),
         progress |->
            IF st.progress # NoProgress
            THEN <<[st.progress[1] EXCEPT !.current = Min(st.progress[1].total, r.i + 1)]>>
            ELSE NoProgress,
         run |-> [r EXCEPT !.results = results,
                           !.call = NoCall,
                           !.answered = Append(@, Ended(call)),
                           !.pc = IF r.i + 1 < Len(r.cardsToProcess)
                                  THEN "pace" ELSE "finally"]]
\* Faulty variant of the loop: the items are taken from the end of the list.
BeginItemReversed(st) ==
    LET r == st.run
        call == CallImage(r.cardsToProcess[Len(r.cardsToProcess) - r.i].visualPrompt, NoRef)
        called == [st EXCEPT !.run.imageCalls = @ + 1]
    IN  IF call.pc = "thrown"
        THEN FinishItem(called, call)
        ELSE [called EXCEPT !.run.call = call, !.run.pc = "image"]

\* One round of the loop up to its await: the image call for item i.
BeginItem(st) ==
    LET r == st.run
        call == CallImage(r.cardsToProcess[r.i + 1].visualPrompt, NoRef)
        called == [st EXCEPT !.run.imageCalls = @ + 1]
    IN  IF call.pc = "thrown"
        THEN FinishItem(called, call)
        ELSE [called EXCEPT !.run.call = call, !.run.pc = "image"]

\* handleGenerateSection once generateDeckSectionMetadata has returned
\* initialCards: the publish of the placeholders and the start of the loop.
AfterMetadata(st, initialCards) ==
    LET published ==
            [st EXCEPT !.deck = Put(st.deck, st.run.section, initialCards),
                       !.run.cardsToProcess = initialCards,
                       !.run.results = initialCards,
                       !.run.batch1 = <<>>,
                       !.run.i = 0,
                       !.run.stage1 = "ok"]
    IN  IF Len(initialCards) = 0
        THEN [published EXCEPT !.run.pc = "finally"]
        ELSE BeginItem(published)

\* The state handleGenerateSection reads and writes.
RunState == [deck |-> deck, progress |-> progress, run |-> run]

\* No task starts between the end of the try block and the finally block:
\* they are one task.
TaskBoundary == run.pc # "finally"

Others == <<hasApiKey, connectionStatus, regens, probe, seeded, rejected>>
\* Faulty variant of the catch block: the failed section is emptied.
RunCatchClears(message) ==
    /\ error' = <<"Generation failed: ", MetadataErrorMessage(message)>>
    /\ run' = [run EXCEPT !.pc = "finally", !.stage1 = "failed", !.batch1 = <<>>]
    /\ deck' = Put(deck, run.section, <<>>)
    /\ UNCHANGED <<progress, now>>

\* Faulty variant of the catch block: the failure is swallowed.
RunCatchSilent(message) ==
    /\ run' = [run EXCEPT !.pc = "finally", !.stage1 = "failed", !.batch1 = <<>>]
    /\ UNCHANGED <<deck, progress, now, error>>

\* The catch block of handleGenerateSection, for the rethrown message.
RunCatch(message) ==
    /\ error' = <<"Generation failed: ", MetadataErrorMessage(message)>>
    /\ run' = [run EXCEPT !.pc = "finally", !.stage1 = "failed", !.batch1 = <<>>]
    /\ UNCHANGED <<deck, progress, now>>

\* Date.now() in generateDeckSectionMetadata.  Every run awaits at least one
\* network round trip before it reads the clock, so each reading is later
\* than the readings of the runs before; the readings within one map call
\* are taken as equal (the ids of one call differ by index).
DateNow == now + 1

\* generateDeckSectionMetadata returns: ids are added and handleGenerateSection
\* goes on.
RunMetadataReturns(rawCards) ==
    LET st == AfterMetadata(RunState, AddIds(rawCards, run.section, DateNow))
    IN  /\ deck' = st.deck
        /\ progress' = st.progress
        /\ run' = st.run
        /\ now' = DateNow
        /\ UNCHANGED error

\* The theme input as the characters typed.
Themes == {<<>>, <<" ">>, <<" ", "\t">>, <<" ", "G", "\n">>}

IsWhiteSpace(c) == c \in {" ", "\t", "\n"}

\* String.prototype.trim
RECURSIVE Trim(_)
Trim(text) ==
    IF text = <<>> THEN <<>>
    ELSE IF IsWhiteSpace(Head(text)) THEN Trim(Tail(text))
    ELSE IF IsWhiteSpace(text[Len(text)]) THEN Trim(SubSeq(text, 1, Len(text) - 1))
    ELSE text
\* Faulty variant: the theme is tested without trim().
GenerateSectionNoTrim(section, theme, limit) ==
    /\ TaskBoundary
    /\ connectionStatus = "connected"
    /\ loadingSection = NULL
    /\ runs < limit
    /\ IF theme = <<>>
       THEN /\ rejected' = TRUE
            /\ UNCHANGED <<hasApiKey, connectionStatus, deck, loadingSection, progress,
                           error, run, regens, now, runs, probe, seeded>>
       ELSE /\ loadingSection' = section
            /\ runs' = runs + 1
            /\ progress' = <<[current |-> 0, total |-> totalCards(section)]>>
            /\ error' = NoError
            /\ run' = [NoRun EXCEPT
                         !.pc = IF section = "Major Arcana" THEN "batch1" ELSE "batch",
                         !.section = section,
                         !.theme = theme,
                         !.stage1 = "pending"]
            /\ rejected' = FALSE
            /\ UNCHANGED <<deck, now, hasApiKey, connectionStatus, regens, probe, seeded>>

\* Faulty variant: the button stays enabled while a section is loading.
GenerateSectionUnguarded(section, theme, limit) ==
    /\ TaskBoundary
    /\ connectionStatus = "connected"
    /\ runs < limit
    /\ IF Trim(theme) = <<>>
       THEN /\ rejected' = TRUE
            /\ UNCHANGED <<hasApiKey, connectionStatus, deck, loadingSection, progress,
                           error, run, regens, now, runs, probe, seeded>>
       ELSE /\ loadingSection' = section
            /\ runs' = runs + 1
            /\ progress' = <<[current |-> 0, total |-> totalCards(section)]>>
            /\ error' = NoError
            /\ run' = [NoRun EXCEPT
                         !.pc = IF section = "Major Arcana" THEN "batch1" ELSE "batch",
                         !.section = section,
                         !.theme = theme,
                         !.stage1 = "pending"]
            /\ rejected' = FALSE
            /\ UNCHANGED <<deck, now, hasApiKey, connectionStatus, regens, probe, seeded>>

\* The "Generate" button of the active section: enabled while no section is
\* loading and the connection is verified.
GenerateSection(section, theme, limit) ==
    /\ TaskBoundary
    /\ connectionStatus = "connected"
    /\ loadingSection = NULL
    /\ runs < limit
    /\ IF Trim(theme) = <<>>
       THEN /\ rejected' = TRUE
            /\ UNCHANGED <<hasApiKey, connectionStatus, deck, loadingSection, progress,
                           error, run, regens, now, runs, probe, seeded>>
       ELSE /\ loadingSection' = section
            /\ runs' = runs + 1
            /\ progress' = <<[current |-> 0, total |-> totalCards(section)]>>
            /\ rejected' = FALSE
            /\ UNCHANGED <<deck, now, hasApiKey, connectionStatus, regens, probe, seeded>>
            /\ IF ~hasApiKey
               THEN /\ error' = <<"Generation failed: ",
                                  "API Key is missing. Please check your .env file.">>
                    /\ run' = [NoRun EXCEPT !.pc = "finally", !.section = section,
                                            !.theme = theme,
                                            !.stage1 = "failed"]
               ELSE /\ error' = NoError
                    /\ run' = [NoRun EXCEPT
                                 !.pc = IF section = "Major Arcana" THEN "batch1" ELSE "batch",
                                 !.section = section,
                                 !.theme = theme,
                                 !.stage1 = "pending"]
\* Faulty variant: the first batch is published as soon as it arrives.
Batch1ResponsePublishes(resp) ==
    /\ run.pc = "batch1"
    /\ IF resp.kind = "cards"
       THEN /\ run' = [run EXCEPT !.pc = "pause", !.batch1 = RawCards(part1, resp.n)]
            /\ deck' = Put(deck, run.section, AddIds(RawCards(part1, resp.n), run.section, DateNow))
            /\ UNCHANGED <<progress, error, now>>
       ELSE RunCatch(BatchErrorMessage(resp))
    /\ UNCHANGED <<loadingSection, runs, Others>>

\* The response to the first Major Arcana request.
Batch1Response(resp) ==
    /\ run.pc = "batch1"
    /\ IF resp.kind = "cards"
       THEN /\ run' = [run EXCEPT !.pc = "pause", !.batch1 = RawCards(part1, resp.n)]
            /\ UNCHANGED <<deck, progress, error, now>>
       ELSE RunCatch(BatchErrorMessage(resp))
    /\ UNCHANGED <<loadingSection, runs, Others>>

\* await wait(1000) is over: the second request goes out.
BatchPauseOver ==
    /\ run.pc = "pause"
    /\ run' = [run EXCEPT !.pc = "batch2"]
    /\ UNCHANGED <<deck, progress, error, now, loadingSection, runs, Others>>
\* Faulty variant: the second batch is put in front of the first.
Batch2ResponseSwapped(resp) ==
    /\ run.pc = "batch2"
    /\ resp.kind = "cards" => Len(run.batch1) + resp.n <= MaxItems
    /\ IF resp.kind = "cards"
       THEN RunMetadataReturns(RawCards(part2, resp.n) \o run.batch1)
       ELSE RunCatch(BatchErrorMessage(resp))
    /\ UNCHANGED <<loadingSection, runs, Others>>

\* The response to the second Major Arcana request.
Batch2Response(resp) ==
    /\ run.pc = "batch2"
    /\ resp.kind = "cards" => Len(run.batch1) + resp.n <= MaxItems
    /\ IF resp.kind = "cards"
       THEN RunMetadataReturns(run.batch1 \o RawCards(part2, resp.n))
       ELSE RunCatch(BatchErrorMessage(resp))
    /\ UNCHANGED <<loadingSection, runs, Others>>

\* The response to the one request of a suit.
BatchResponse(resp) ==
    /\ run.pc = "batch"
    /\ IF resp.kind = "cards"
       THEN RunMetadataReturns(RawCards(suitList(run.section), resp.n))
       ELSE RunCatch(BatchErrorMessage(resp))
    /\ UNCHANGED <<loadingSection, runs, Others>>

\* The response to the image request of the run's current item.
RunImageResponse(resp) ==
    /\ run.pc = "image"
    /\ run.call.pc = "request"
    /\ LET call == ImageResponse(run.call, resp)
       IN  IF call.pc = "backoff"
           THEN /\ run' = [run EXCEPT !.call = call]
                /\ UNCHANGED <<deck, progress>>
           ELSE LET st == FinishItem(RunState, call)
                IN  /\ deck' = st.deck
                    /\ progress' = st.progress
                    /\ run' = st.run
    /\ UNCHANGED <<error, now, loadingSection, runs, Others>>

\* The backoff wait of the run's image call is over.
RunImageBackoffOver ==
    /\ run.pc = "image"
    /\ run.call.pc = "backoff"
    /\ run' = [run EXCEPT !.call = ImageBackoffOver(run.call)]
    /\ UNCHANGED <<deck, progress, error, now, loadingSection, runs, Others>>

\* The 4000 ms pacing wait is over: i += CONCURRENCY and the next round.
RunPaceOver ==
    /\ run.pc = "pace"
    /\ LET st == BeginItem([RunState EXCEPT !.run.i = @ + 1])
       IN  /\ deck' = st.deck
           /\ progress' = st.progress
           /\ run' = st.run
    /\ UNCHANGED <<error, now, loadingSection, runs, Others>>
\* Faulty variant: the finally block leaves loadingSection set.
RunFinallyKeepsMarker ==
    /\ run.pc = "finally"
    /\ progress' = NoProgress
    /\ run' = NoRun
    /\ UNCHANGED <<loadingSection, deck, error, now, runs, Others>>

\* The finally block.
RunFinally ==
    /\ run.pc = "finally"
    /\ loadingSection' = NULL
    /\ progress' = NoProgress
    /\ run' = NoRun
    /\ UNCHANGED <<deck, error, now, runs, Others>>

\* ------------------------------------------------------- regenerateImage
\* The frame of one regenerateImage invocation: idle, or inside its await.
NoRegen == [pc |-> "idle", cardId |-> <<>>, cardSection |-> NULL, call |-> NoCall]

\* The first section, in SECTIONS order, that holds a card with this id;
\* NULL (undefined) when none does.
FindSection(d, cardId) ==
    LET holds(k) == \E j \in 1..Len(d[SECTIONS[k]]) : d[SECTIONS[k]][j].id = cardId
    IN  IF \E k \in 1..Len(SECTIONS) : holds(k)
        THEN SECTIONS[CHOOSE k \in 1..Len(SECTIONS) :
                        holds(k) /\ \A j \in 1..(k - 1) : ~holds(j)]
        ELSE NULL

\* prev[cardSection].map(c => c.id === cardId ? { ...c, isLoadingImage } : c)
SetLoading(cards, cardId, loading) ==
    [k \in 1..Len(cards) |->
        IF cards[k].id = cardId
        THEN [cards[k] EXCEPT !.isLoadingImage = loading]
        ELSE cards[k]]
\* Faulty variant: the list written back has every loading flag cleared.
SetImageClearsAll(cards, cardId, newUrl) ==
    [k \in 1..Len(cards) |->
        IF cards[k].id = cardId
        THEN [cards[k] EXCEPT !.imageUrl = newUrl, !.isLoadingImage = FALSE]
        ELSE [cards[k] EXCEPT !.isLoadingImage = FALSE]]

\* Faulty variant: when no card has the id, the image goes to the first card.
SetImageUpsert(cards, cardId, newUrl) ==
    LET found == \E k \in 1..Len(cards) : cards[k].id = cardId
    IN  [k \in 1..Len(cards) |->
            IF cards[k].id = cardId \/ (~found /\ k = 1)
            THEN [cards[k] EXCEPT !.imageUrl = newUrl, !.isLoadingImage = FALSE]
            ELSE cards[k]]

\* Faulty variant: the new image is written to every card of the section.
SetImageAll(cards, cardId, newUrl) ==
    [k \in 1..Len(cards) |->
        [cards[k] EXCEPT !.imageUrl = newUrl, !.isLoadingImage = FALSE]]

\* prev[cardSection].map(c => c.id === cardId
\*                            ? { ...c, imageUrl: newUrl, isLoadingImage: false } : c)
SetImage(cards, cardId, newUrl) ==
    [k \in 1..Len(cards) |->
        IF cards[k].id = cardId
        THEN [cards[k] EXCEPT !.imageUrl = newUrl, !.isLoadingImage = FALSE]
        ELSE cards[k]]

\* prompt + ` random seed ${Math.random()}`
SeededPrompt(prompt, random) == <<prompt, " random seed ", random>>

\* The lowest free slot.
FreeSlot(slot) ==
    /\ regens[slot].pc = "idle"
    /\ \A j \in 1..(slot - 1) : regens[j].pc # "idle"

RunVars == <<loadingSection, progress, error, run, now, runs>>

\* The "Regenerate" button of a displayed card (shown while the card is not
\* loading): regenerateImage(card.id, card.visualPrompt) up to its await.
RegenerateImage(slot, section, k, random) ==
    /\ TaskBoundary
    /\ FreeSlot(slot)
    /\ k \in 1..Len(deck[section])
    /\ ~deck[section][k].isLoadingImage
    /\ LET card == deck[section][k]
           cardSection == FindSection(deck, card.id)
           call == CallImage(SeededPrompt(card.visualPrompt, random), NoRef)
           loading == Put(deck, cardSection, SetLoading(deck[cardSection], card.id, TRUE))
       IN  IF call.pc = "thrown"
           THEN /\ deck' = Put(loading, cardSection, SetLoading(loading[cardSection], card.id, FALSE))
                /\ UNCHANGED regens
           ELSE /\ deck' = loading
                /\ regens' = [regens EXCEPT ![slot] =
                                [pc |-> "image", cardId |-> card.id,
                                 cardSection |-> cardSection, call |-> call]]
    /\ UNCHANGED <<hasApiKey, connectionStatus, probe, rejected, RunVars>>

\* The response to the image request of a regeneration.
RegenImageResponse(slot, resp) ==
    /\ TaskBoundary
    /\ regens[slot].pc = "image"
    /\ regens[slot].call.pc = "request"
    /\ LET r == regens[slot]
           call == ImageResponse(r.call, resp)
       IN  IF call.pc = "backoff"
           THEN /\ regens' = [regens EXCEPT ![slot].call = call]
                /\ UNCHANGED deck
           ELSE /\ regens' = [regens EXCEPT ![slot] = NoRegen]
                /\ deck' = Put(deck, r.cardSection,
                                SetImage(deck[r.cardSection], r.cardId, call.result))
    /\ UNCHANGED <<hasApiKey, connectionStatus, probe, rejected, RunVars>>

\* The backoff wait of a regeneration's image call is over.
RegenImageBackoffOver(slot) ==
    /\ TaskBoundary
    /\ regens[slot].pc = "image"
    /\ regens[slot].call.pc = "backoff"
    /\ regens' = [regens EXCEPT ![slot].call = ImageBackoffOver(@)]
    /\ UNCHANGED <<deck, hasApiKey, connectionStatus, probe, rejected, RunVars>>

\* validateApiKey settles: the connection check of the mount effect ends.
ValidateApiKeyReturns(valid) ==
    /\ connectionStatus = "checking"
    /\ connectionStatus' = IF valid THEN "connected" ELSE "invalid"
    /\ UNCHANGED <<hasApiKey, deck, loadingSection, progress, error, run, regens,
                   now, runs, probe, seeded, rejected>>

\* ------------------------------------------ one generateCardImage call
\* Prompts handed to the observed call: the prompts of cards, plain and
\* seeded.
ProbePrompts ==
    LET plain == {RawCard(names, k).visualPrompt :
                    names \in {part1, part2, suitList("Wands")}, k \in 1..MaxItems}
    IN  plain \cup {SeededPrompt(prompt, random) : prompt \in plain, random \in Randoms}

\* What the observed call leaves alone.
ProbeFrame == <<hasApiKey, connectionStatus, regens, seeded, rejected, deck, RunVars>>

ProbeCall(visualPrompt, ref) ==
    /\ probe.pc = "none"
    /\ probe' = CallImage(visualPrompt, ref)

ProbeResponse(resp) ==
    /\ probe.pc = "request"
    /\ probe' = ImageResponse(probe, resp)

ProbeBackoffOver ==
    /\ probe.pc = "backoff"
    /\ probe' = ImageBackoffOver(probe)

\* ---------------------------------------------------------- specifications
Init ==
    /\ hasApiKey \in BOOLEAN
    /\ connectionStatus = IF hasApiKey THEN "checking" ELSE "missing"
    /\ deck = [s \in Sections |-> <<>>]
    /\ loadingSection = NULL
    /\ progress = NoProgress
    /\ error = NoError
    /\ run = NoRun
    /\ regens = [slot \in 1..MaxRegens |-> NoRegen]
    /\ now = 0
    /\ runs = 0
    /\ probe = NoCall
    /\ seeded = [cardId |-> <<>>, parts |-> <<>>]
    /\ rejected = FALSE

\* The steps of a section run.
RunStep ==
    \/ \E resp \in BatchResponses : Batch1Response(resp)
    \/ BatchPauseOver
    \/ \E resp \in BatchResponses : Batch2Response(resp)
    \/ \E resp \in BatchResponses : BatchResponse(resp)
    \/ \E resp \in ImageResponses : RunImageResponse(resp)
    \/ RunImageBackoffOver
    \/ RunPaceOver
    \/ RunFinally

\* The steps of the regenerations in flight.
RegenStep ==
    \/ \E slot \in 1..MaxRegens, resp \in ImageResponses : RegenImageResponse(slot, resp)
    \/ \E slot \in 1..MaxRegens : RegenImageBackoffOver(slot)

\* Section runs, one after the other.
Next ==
    \/ \E valid \in BOOLEAN : ValidateApiKeyReturns(valid)
    \/ \E section \in Tabs, theme \in Themes :
          GenerateSection(section, theme, MaxRuns)
    \/ RunStep

Spec == Init /\ [][Next]_vars
\* Section runs whose every step is eventually taken: the service answers
\* every request and every timer fires.
NextLive ==
    \/ \E valid \in BOOLEAN : ValidateApiKeyReturns(valid)
    \/ \E section \in Tabs, theme \in Themes :
          GenerateSection(section, theme, MaxLiveRuns)
    \/ RunStep

SpecLive == Init /\ [][NextLive]_vars /\ WF_vars(RunStep)


\* One generateCardImage call, from the call to its return.
NextImage ==
    \/ \E visualPrompt \in ProbePrompts, ref \in {NoRef, GoodRef, BadRef} :
          ProbeCall(visualPrompt, ref) /\ UNCHANGED ProbeFrame
    \/ \E resp \in ImageResponses :
          ProbeResponse(resp) /\ UNCHANGED ProbeFrame
    \/ ProbeBackoffOver /\ UNCHANGED ProbeFrame

SpecImage == Init /\ [][NextImage]_vars

\* Section runs and regenerations of single cards; seeded remembers the last
\* regeneration started.
NextRegen ==
    \/ \E valid \in BOOLEAN : ValidateApiKeyReturns(valid)
    \/ \E section \in Tabs, theme \in Themes :
          GenerateSection(section, theme, MaxRegenRuns)
    \/ RunStep
    \/ \E slot \in 1..MaxRegens, section \in Sections, k \in 1..MaxItems, random \in Randoms :
          /\ RegenerateImage(slot, section, k, random)
          /\ seeded' = [cardId |-> deck[section][k].id,
                        parts |-> Parts(SeededPrompt(deck[section][k].visualPrompt, random), NoRef)]
    \/ RegenStep /\ UNCHANGED seeded

SpecRegen == Init /\ [][NextRegen]_vars

\* Everything: section runs with regenerations in flight.
NextAll ==
    \/ \E valid \in BOOLEAN : ValidateApiKeyReturns(valid)
    \/ \E section \in Tabs, theme \in Themes :
          GenerateSection(section, theme, MaxRuns)
    \/ RunStep
    \/ \E slot \in 1..MaxRegens, section \in Sections, k \in 1..MaxItems, random \in Randoms :
          RegenerateImage(slot, section, k, random) /\ UNCHANGED seeded
    \/ RegenStep /\ UNCHANGED seeded

SpecAll == Init /\ [][NextAll]_vars
\* Overlapping regenerations with no run active: section runs and
\* regenerations take turns, a run starting only while no regeneration is in
\* flight and a regeneration only while no run is active; several
\* regenerations are in flight at once.
InitPair ==
    /\ hasApiKey \in BOOLEAN
    /\ connectionStatus = IF hasApiKey THEN "checking" ELSE "missing"
    /\ deck = [s \in Sections |-> <<>>]
    /\ loadingSection = NULL
    /\ progress = NoProgress
    /\ error = NoError
    /\ run = NoRun
    /\ regens = [slot \in 1..MaxPairRegens |-> NoRegen]
    /\ now = 0
    /\ runs = 0
    /\ probe = NoCall
    /\ seeded = [cardId |-> <<>>, parts |-> <<>>]
    /\ rejected = FALSE

NextPair ==
    \/ \E valid \in BOOLEAN : ValidateApiKeyReturns(valid)
    \/ \E section \in Tabs, theme \in Themes :
          /\ \A slot \in DOMAIN regens : regens[slot].pc = "idle"
          /\ GenerateSection(section, theme, MaxPairRuns)
    \/ RunStep
    \/ \E slot \in 1..MaxPairRegens, section \in Sections, k \in 1..MaxItems, random \in Randoms :
          /\ loadingSection = NULL
          /\ RegenerateImage(slot, section, k, random)
          /\ UNCHANGED seeded
    \/ \E slot \in 1..MaxPairRegens, resp \in ImageResponses :
          RegenImageResponse(slot, resp) /\ UNCHANGED seeded
    \/ \E slot \in 1..MaxPairRegens :
          RegenImageBackoffOver(slot) /\ UNCHANGED seeded

SpecPair == InitPair /\ [][NextPair]_vars



\* ------------------------------------------------------------ item status
\* The status of the specification's Item, read off a card.
ImageInProgress(card) == card.isLoadingImage

ImageReady(card) ==
    ~card.isLoadingImage /\ \E data \in Payloads : card.imageUrl = DataUrl(data)

ImageFailed(card) ==
    ~card.isLoadingImage /\ card.imageUrl \in {QuotaExceeded, GenerationFailed}

NeedsImage(card) == ~card.isLoadingImage /\ card.imageUrl = NoUrl

\* The try block of a run whose metadata stage succeeded is over.
RunEndsAfterStage1 == run.pc = "finally" /\ run.stage1 = "ok"

\* The items of the run whose image call failed terminally.
FailedItems == {k \in 1..Len(run.answered) : run.answered[k] \in {"Fatal", "RateLimited"}}

\* ------------------------------------------------------------------ claims

\* C1: after generateDeckSectionMetadata succeeds, the number of items
\* published for the section is its fixed cardinality, 22 for 'Major Arcana'
\* and 14 for a suit, whatever list lengths the service returns.
C1_Cardinality ==
    run.stage1 = "ok" => Len(deck[run.section]) = totalCards(run.section)

\* C2: when every attempt of an image call is RateLimited, generateCardImage
\* sends exactly 4 requests, waits 10000, 15000 and 22500 ms between them,
\* waits nothing after the fourth failure and returns the fallback.
C2_QuotaExhaustion ==
    LET allLimited ==
            /\ Len(probe.answers) > 0
            /\ \A k \in 1..Len(probe.answers) : probe.answers[k] = "RateLimited"
    IN  /\ probe.requests <= 4
        /\ allLimited /\ Len(probe.answers) = 4 => probe.pc = "returned"
        /\ allLimited /\ probe.pc = "returned" =>
              /\ probe.requests = 4
              /\ probe.waited = <<10000, 15000, 22500>>
              /\ probe.result = QuotaExceeded

C2_Witness ==
    /\ probe.pc = "returned"
    /\ probe.answers = <<"RateLimited", "RateLimited", "RateLimited", "RateLimited">>
    /\ probe.result = QuotaExceeded

\* C3 as claimed: when the first attempt fails with a Fatal failure, the
\* call is attempted once, no delay elapses and the failure propagates to
\* the caller.
C3_FatalPropagates ==
    (Len(probe.answers) > 0 /\ probe.answers[1] = "Fatal") =>
        /\ probe.requests = 1
        /\ probe.waited = <<>>
        /\ probe.pc = "thrown"

\* C3 as amended: when the first attempt fails with a Fatal failure, the
\* call is attempted once, no delay elapses and generateCardImage returns the
\* 'Generation Failed' marker instead of raising.
C3_FatalFallback ==
    (Len(probe.answers) > 0 /\ probe.answers[1] = "Fatal") =>
        /\ probe.requests = 1
        /\ probe.waited = <<>>
        /\ probe.pc = "returned"
        /\ probe.result = GenerationFailed

C3_Witness ==
    /\ probe.answers = <<"Fatal">>
    /\ probe.pc = "returned"
    /\ probe.requests = 1

\* C4: when exactly one image call of a run fails terminally and the others
\* succeed, every item is processed: the section ends with all its items,
\* the failed one image-failed with a fallback marker, the others
\* image-ready.
C4_FailureIsolated ==
    (RunEndsAfterStage1 /\ Cardinality(FailedItems) = 1
        /\ \A k \in 1..Len(run.answered) : k \notin FailedItems => run.answered[k] = "Image") =>
        LET cards == deck[run.section]
        IN  /\ Len(run.answered) = Len(run.cardsToProcess)
            /\ Len(cards) = Len(run.cardsToProcess)
            /\ \A k \in 1..Len(cards) :
                  /\ cards[k].id = run.cardsToProcess[k].id
                  /\ k \in FailedItems => ImageFailed(cards[k])
                  /\ k \notin FailedItems => ImageReady(cards[k])

C4_Witness ==
    /\ RunEndsAfterStage1
    /\ FailedItems = {1}
    /\ Len(run.answered) = 2
    /\ ImageFailed(deck[run.section][1])
    /\ ImageReady(deck[run.section][2])

\* C5: a run ends with the run-level error set exactly when its metadata
\* stage failed; no outcome of an image call sets the error.
C5_ErrorOnlyFromStage1 ==
    /\ run.stage1 = "ok" => error = NoError
    /\ run.pc = "finally" => (error # NoError <=> run.stage1 = "failed")

C5_Witness ==
    /\ RunEndsAfterStage1
    /\ FailedItems # {}
    /\ error = NoError
    /\ runs = 2

\* C6: when a metadata sub-request fails the whole metadata stage fails: no
\* step of the run up to the failure changes the deck, and the run makes no
\* image call.
C6_Stage1AllOrNothing ==
    /\ [][(run.pc \in {"idle", "batch1", "pause", "batch2", "batch"}
            /\ run' # run /\ run'.stage1 # "ok") => deck' = deck]_vars
    /\ []((run.pc = "finally" /\ run.stage1 = "failed") =>
            run.imageCalls = 0 /\ run.call = NoCall)

C6_Witness ==
    /\ run.pc = "finally"
    /\ run.stage1 = "failed"
    /\ run.section = "Major Arcana"
    /\ Len(deck["Major Arcana"]) = 2

\* C7: during a run progress.current never decreases, and it has reached the
\* section's total when the last item has been updated.
C7_ProgressReachesTotal ==
    /\ [][(progress # NoProgress /\ progress' # NoProgress) =>
            progress'[1].current >= progress[1].current]_vars
    /\ [](RunEndsAfterStage1 =>
            progress # NoProgress /\ progress[1].current = progress[1].total)

\* C8: for 'Major Arcana' the second sub-request is issued only after the
\* first has returned, and the item list is the first reply followed by the
\* second, each in the order returned.
C8_BatchOrder ==
    /\ [][(run'.pc = "batch2" /\ run.pc # "batch2") =>
            (run.pc = "pause" /\ run'.batch1 = run.batch1)]_vars
    /\ [][(run'.pc = "pause" /\ run.pc # "pause") => run.pc = "batch1"]_vars
    /\ [](LET cards == deck["Major Arcana"]
          IN  \E n1 \in 0..Len(cards) :
                \A k \in 1..Len(cards) :
                    IF k <= n1
                    THEN cards[k].name = part1 /\ cards[k].visualPrompt = <<part1, k>>
                    ELSE cards[k].name = part2 /\ cards[k].visualPrompt = <<part2, k - n1>>)

C8_Witness ==
    /\ Len(deck["Major Arcana"]) = 2
    /\ deck["Major Arcana"][1].name = part1
    /\ deck["Major Arcana"][2].name = part2

\* C9: two successive regenerations of the same item send image calls whose
\* instruction strings differ.
C9_SeedsDiffer ==
    [][\A slot \in 1..MaxRegens :
          (regens[slot].pc = "idle" /\ regens'[slot].pc = "image"
              /\ regens'[slot].cardId = seeded.cardId) =>
          regens'[slot].call.parts # seeded.parts]_vars

\* C10: when a run whose metadata stage succeeded ends, every item of its
\* section is image-ready or image-failed.
C10_SectionComplete ==
    RunEndsAfterStage1 =>
        \A k \in 1..Len(deck[run.section]) :
            ImageReady(deck[run.section][k]) \/ ImageFailed(deck[run.section][k])

C10_Witness ==
    /\ RunEndsAfterStage1
    /\ Len(deck[run.section]) = 2
    /\ ImageReady(deck[run.section][1])
    /\ ImageReady(deck[run.section][2])

\* The requests of a section run that are with the service.
RunInFlight(r) ==
    \/ r.pc \in {"batch1", "batch2", "batch"}
    \/ r.pc = "image" /\ r.call.pc = "request"

\* The requests of the regenerations that are with the service.
RegensInFlight == {slot \in 1..MaxRegens : regens[slot].call.pc = "request"}

\* The identifiers of the items of a deck.
Ids(d) == UNION {{d[s][k].id : k \in 1..Len(d[s])} : s \in DOMAIN d}

C12_RegenRetained ==
    [][(run.pc \in {"image", "pace"} /\ run' # run) =>
          \A k \in 1..Len(deck[run.section]) :
              (/\ k <= Len(run.answered)
               /\ deck[run.section][k].id = seeded.cardId
               /\ \A slot \in 1..MaxRegens : regens[slot].cardId # seeded.cardId
               /\ ImageReady(deck[run.section][k])) =>
              (/\ k <= Len(deck'[run.section])
               /\ deck'[run.section][k] = deck[run.section][k])]_vars

\* C13: a run starts only while no run is active, and loadingSection names
\* the running section from the start of the run to its end.
C13_OneRunAtATime ==
    /\ [][runs' # runs =>
            /\ run.pc = "idle"
            /\ loadingSection = NULL
            /\ loadingSection' = run'.section
            /\ loadingSection' \in Sections]_vars
    /\ [](run.pc # "idle" <=> loadingSection # NULL)
    /\ [](run.pc # "idle" => loadingSection = run.section)

C13_Witness ==
    /\ runs = 2
    /\ run.pc = "image"
    /\ loadingSection = run.section
    /\ loadingSection \in Sections

\* C14: at most one request to the generation service is in flight, counting
\* the requests of the section run and of the regenerations.
C14_OneRequestInFlight ==
    (IF RunInFlight(run) THEN 1 ELSE 0) + Cardinality(RegensInFlight) <= 1

\* C15: every call of a section run after its first is issued only after a
\* wait of at least 2 seconds that began when the previous call returned.
C15_PacedCalls ==
    [][(RunInFlight(run') /\ (~RunInFlight(run) \/ run'.pc # run.pc)) =>
          \/ run.pc = "idle"
          \/ run.pc = "pause" /\ BatchPause >= 2 * 1000
          \/ run.pc = "pace" /\ PaceDelay >= 2 * 1000
          \/ run.pc = "image" /\ run.call.pc = "backoff" /\ run.call.delay >= 2 * 1000]_vars

\* C16: a click on Generate with an empty or whitespace-only theme is turned
\* down before any request: deck, loadingSection, progress and error stay as
\* they are, and no run ever carries such a theme.
C16_BlankThemeRejected ==
    /\ [](run.pc # "idle" => Trim(run.theme) # <<>>)
    /\ [][(run.pc = "idle" /\ run'.pc # "idle") => Trim(run'.theme) # <<>>]_vars
    /\ [][(rejected' /\ ~rejected) =>
            /\ UNCHANGED <<deck, loadingSection, progress, error, run>>
            /\ ~RunInFlight(run')]_vars

C16_Witness ==
    /\ rejected
    /\ runs = 1
    /\ run = NoRun
    /\ Len(deck["Wands"]) = 2
    /\ loadingSection = NULL
    /\ error = NoError

\* C17: every section run that started ends, and when it has ended
\* loadingSection and progress are cleared and the run's frame is gone.
C17_RunEnds ==
    (loadingSection # NULL) ~>
        (loadingSection = NULL /\ progress = NoProgress /\ run = NoRun)

C17_Witness ==
    /\ runs = 1
    /\ run = NoRun
    /\ loadingSection = NULL
    /\ progress = NoProgress
    /\ Len(deck["Wands"]) = 2
    /\ deck["Wands"][1].imageUrl = QuotaExceeded

\* The identifiers of the items of one section.
SectionIds(d, s) == {d[s][k].id : k \in 1..Len(d[s])}

\* C18: the deck always has exactly the five section keys, each mapped to a
\* list of items.
C18_FiveSections ==
    /\ DOMAIN deck = {"Major Arcana", "Wands", "Cups", "Swords", "Pentacles"}
    /\ \A s \in DOMAIN deck : DOMAIN deck[s] = 1..Len(deck[s])

C18_Witness ==
    /\ DOMAIN deck = Sections
    /\ Len(deck["Wands"]) = 2
    /\ deck["Cups"] = <<>>
    /\ seeded.cardId = deck["Wands"][2].id
    /\ regens[1].pc = "idle"
    /\ run = NoRun

Warnings(call) == {k \in 1..Len(call.log) : call.log[k][1] = "warn"}

\* C21: the image calls of a run are issued one at a time in the order of
\* the metadata stage: the call in flight is the one of item i + 1, and the
\* items before it are finished and published.
C21_ItemsInOrder ==
    /\ [](run.pc = "image" =>
            /\ run.imageCalls = run.i + 1
            /\ Len(run.answered) = run.i
            /\ run.call.parts = Parts(run.cardsToProcess[run.i + 1].visualPrompt, NoRef)
            /\ \A k \in 1..run.i :
                  /\ deck[run.section][k].id = run.cardsToProcess[k].id
                  /\ ~deck[run.section][k].isLoadingImage
                  /\ deck[run.section][k].imageUrl # NoUrl)
    /\ [][(run'.pc = "image" /\ run'.imageCalls # run.imageCalls) =>
            /\ run'.imageCalls = run.imageCalls + 1
            /\ run.pc \in {"batch", "batch2", "pace"}
            /\ run.pc = "pace" => run'.i = run.i + 1]_vars

C21_Witness ==
    /\ run.pc = "image"
    /\ run.i = 1
    /\ run.imageCalls = 2
    /\ ImageFailed(deck[run.section][1])
    /\ ImageInProgress(deck[run.section][2])

\* C22: when a generateCardImage call has returned, it has emitted as many
\* warning events as it made retries.
C22_WarningPerRetry ==
    probe.pc = "returned" => Cardinality(Warnings(probe)) = Len(probe.waited)

\* C23: during the image stage the items not yet reached are needs-image and
\* at most one item of the running section is image-in-progress.
C23_OneInProgress ==
    (run.stage1 = "ok" /\ run.pc \in {"image", "pace", "finally"}) =>
        LET cards == deck[run.section]
        IN  /\ Cardinality({k \in 1..Len(cards) : ImageInProgress(cards[k])}) <= 1
            /\ \A k \in 1..Len(cards) : k > run.i + 1 => NeedsImage(cards[k])

\* The real images a request can return.
RealImages == {DataUrl(data) : data \in Payloads}

\* C24: the completion of a regeneration replaces the item's image reference
\* only by a real image: when the regeneration's image call failed, the
\* reference the item had before is still there.
C24_FailedRegenKeepsImage ==
    [][\A slot \in DOMAIN regens :
          (regens[slot].pc = "image" /\ regens'[slot].pc = "idle") =>
              \A s \in DOMAIN deck :
                  \A k \in 1..Len(deck[s]) :
                      deck[s][k].id = regens[slot].cardId =>
                          /\ k <= Len(deck'[s])
                          /\ deck'[s][k].id = deck[s][k].id
                          /\ \/ ImageReady(deck'[s][k])
                             \/ deck'[s][k].imageUrl = deck[s][k].imageUrl]_vars

\* C25: a call that is RateLimited on its first k attempts (1 <= k <= 3) and
\* gets an image on attempt k + 1 returns that image, after k + 1 requests
\* and the first k waits of 10000, 15000, 22500 ms.
C25_SucceedsAfterRetries ==
    \A k \in 1..InitialRetries :
        (/\ probe.pc = "returned"
         /\ Len(probe.answers) = k + 1
         /\ probe.answers[k + 1] = "Image"
         /\ \A j \in 1..k : probe.answers[j] = "RateLimited") =>
            /\ probe.result \in RealImages
            /\ probe.requests = k + 1
            /\ probe.waited = SubSeq(<<10000, 15000, 22500>>, 1, k)

C25_Witness ==
    /\ probe.pc = "returned"
    /\ probe.answers = <<"RateLimited", "RateLimited", "RateLimited", "Image">>
    /\ probe.result \in RealImages
    /\ probe.waited = <<10000, 15000, 22500>>

\* C26: with an API key generateCardImage never raises: whatever the service
\* answers it returns the real image, or 'Quota Exceeded' after exhausted
\* retries, or 'Generation Failed' otherwise; it raises only without a key.
C26_NeverRaises ==
    /\ probe.pc = "thrown" => ~hasApiKey
    /\ ~hasApiKey => probe.pc \in {"none", "thrown"}
    /\ probe.pc = "returned" =>
          LET last == probe.answers[Len(probe.answers)]
          IN  /\ probe.result \in RealImages \cup {QuotaExceeded, GenerationFailed}
              /\ probe.result \in RealImages <=> last = "Image"
              /\ probe.result = QuotaExceeded <=>
                    (last = "RateLimited" /\ Len(probe.answers) = InitialRetries + 1)
              /\ probe.result = GenerationFailed <=> last = "Fatal"

C26_Witness ==
    /\ hasApiKey
    /\ probe.pc = "returned"
    /\ probe.answers = <<"RateLimited", "Fatal">>
    /\ probe.result = GenerationFailed

\* C27: with an API key, every item of the deck that is not loading has an
\* image reference, under every interleaving of runs and regenerations.
C27_NotLoadingHasImage ==
    hasApiKey =>
        \A s \in DOMAIN deck :
            \A k \in 1..Len(deck[s]) : ~NeedsImage(deck[s][k])

C27_Witness ==
    /\ hasApiKey
    /\ runs = 2
    /\ run.pc = "image"
    /\ regens[1].pc = "image"
    /\ \E s \in DOMAIN deck : \E k \in 1..Len(deck[s]) : ImageFailed(deck[s][k])
    /\ \E s \in DOMAIN deck : \E k \in 1..Len(deck[s]) : ImageInProgress(deck[s][k])

\* C28: no step of a section run, from its start to its finally block,
\* changes the list of a section other than the run's.
C28_OtherSectionsKept ==
    [][run' # run =>
          LET section == IF run.pc = "idle" THEN run'.section ELSE run.section
          IN  \A t \in DOMAIN deck :
                  t # section => (t \in DOMAIN deck' /\ deck'[t] = deck[t])]_vars

C28_Witness ==
    /\ RunEndsAfterStage1
    /\ run.section = "Wands"
    /\ Len(deck["Wands"]) = 2
    /\ regens[1].pc = "image"
    /\ regens[1].cardSection = "Major Arcana"
    /\ \E k \in 1..Len(deck["Major Arcana"]) :
          /\ deck["Major Arcana"][k].id = regens[1].cardId
          /\ ImageInProgress(deck["Major Arcana"][k])

\* C30: a step of a regeneration whose item is no longer in the deck, its
\* section having been generated anew, leaves the deck as it is.
C30_LateRegenNoOp ==
    [][\A slot \in DOMAIN regens :
          (/\ regens'[slot] # regens[slot]
           /\ regens[slot].pc = "image"
           /\ regens[slot].cardId \notin Ids(deck)) => deck' = deck]_vars

C30_Witness ==
    /\ runs = 2
    /\ regens[1].pc = "image"
    /\ regens[1].call.pc = "request"
    /\ regens[1].cardId \notin Ids(deck)
    /\ Len(deck[regens[1].cardSection]) = 2
    /\ run.section = regens[1].cardSection
    /\ run.stage1 = "ok"

\* C29: with no run active, regenerations of distinct items that overlap
\* all take effect: the completion of one writes its own result to its own
\* item and leaves every other item, the ones still being regenerated
\* included, as it is; when all have completed no item is left loading.
C29_OverlappingRegens ==
    /\ [][\A slot \in DOMAIN regens :
            (regens[slot].pc = "image" /\ regens'[slot].pc = "idle") =>
                \A s \in DOMAIN deck :
                    \A k \in 1..Len(deck[s]) :
                        IF deck[s][k].id = regens[slot].cardId
                        THEN /\ ~deck'[s][k].isLoadingImage
                             /\ \E resp \in ImageResponses :
                                   LET call == ImageResponse(regens[slot].call, resp)
                                   IN  /\ call.pc = "returned"
                                       /\ deck'[s][k].imageUrl = call.result
                        ELSE deck'[s][k] = deck[s][k]]_vars
    /\ [](run.pc = "idle" =>
            \A slot \in DOMAIN regens :
                regens[slot].pc = "image" =>
                    \E k \in 1..Len(deck[regens[slot].cardSection]) :
                        /\ deck[regens[slot].cardSection][k].id = regens[slot].cardId
                        /\ ImageInProgress(deck[regens[slot].cardSection][k]))
    /\ []((run.pc = "idle" /\ \A slot \in DOMAIN regens : regens[slot].pc = "idle") =>
            \A s \in DOMAIN deck :
                \A k \in 1..Len(deck[s]) : ~ImageInProgress(deck[s][k]))

C29_Witness ==
    /\ run.pc = "idle"
    /\ loadingSection = NULL
    /\ regens[1].pc = "idle"
    /\ regens[2].pc = "image"
    /\ Len(deck[regens[2].cardSection]) = 2
    /\ \E k \in 1..2 :
          /\ deck[regens[2].cardSection][k].id = regens[2].cardId
          /\ ImageInProgress(deck[regens[2].cardSection][k])
          /\ ImageFailed(deck[regens[2].cardSection][3 - k])

====
